---- MODULE Spec2Model ----
(***************************************************************************)
(* embedded-dma: the ReadBuffer / WriteBuffer capability traits, the Word  *)
(* marker, the ReadTarget / WriteTarget derivation rules and the blanket   *)
(* bridges of src/src/lib.rs.                                              *)
(*                                                                         *)
(* Two specifications share the module.  SpecTarget explores target types  *)
(* (what `T: ReadTarget` / `T: WriteTarget` resolves to, and what          *)
(* as_read_buffer / as_write_buffer return for a value of the type).  Spec *)
(* explores an owner of a buffer: the blanket ReadBuffer / WriteBuffer     *)
(* impls, calls of read_buffer / write_buffer, moves of the owner, &self   *)
(* and &mut self operations on it and the hardware writing through an      *)
(* outstanding descriptor.                                                 *)
(***************************************************************************)
EXTENDS Integers, Sequences, FiniteSets, TLC

VARIABLES
    ty,       \* the type of the target value (Self of ReadTarget/WriteTarget)
    addr,     \* the address the target value lives at
    rdDesc,   \* SpecTarget: last result of as_read_buffer on the value, or None
    wrDesc,   \* SpecTarget: last result of as_write_buffer on the value, or None
    owner,    \* Spec: the owner B of the buffer, or NoOwner
    mem,      \* Spec: the first words of the target's contents
    heap,     \* Spec: the addresses of the live heap allocations
    rdLog,    \* Spec: results of read_buffer since the last &mut self operation
    wrLog     \* Spec: results of write_buffer since the last other &mut self operation

vars == <<ty, addr, rdDesc, wrDesc, owner, mem, heap, rdLog, wrLog>>

None == <<>>
NoOwner == [kind |-> "none", static |-> FALSE, loc |-> 0, shares |-> 0]

----------------------------------------------------------------------------
(* Bounds of the exploration.                                              *)

\* array and slice lengths 0..MaxDenseLen are all explored
MaxDenseLen == 300
\* so are 2^k - 1, 2^k and 2^k + 1 for every k up to MaxPow
MaxPow == 17
\* lengths of the layers put around a type that already has a layer
MaxNestLen == 4
\* nesting depth of the explored types
MaxDepth == 3
\* the target value is placed at BaseAddr + AddrStep * i, i in 0..MaxAddrIdx
MaxAddrIdx == 1
\* read_buffer / write_buffer calls logged between two &mut self operations
MaxCalls == 3
\* the hardware's writes are followed on the first MaxDmaWords words
MaxDmaWords == 2
\* a Vec's length in Spec
MaxVecLen == 2
\* &self operations on the owner in progress at once
MaxShares == 1

----------------------------------------------------------------------------
(* Types.  A type is a primitive wrapped in layers, outermost first:       *)
(* <<"array", n>> is [T; n], <<"slice", n>> is a [T] value of n elements,  *)
(* <<"uninit", 0>> is MaybeUninit<T>.                                      *)

\* The primitive types the derivation rules are tried on: what kind of type
\* each is and how many bits its representation has.
\* usize and isize are given the 32 bits of the embedded targets; neither is a
\* Word, so no descriptor is ever computed from their size.
PrimInfo ==
    [ u8    |-> [kind |-> "uint",     bits |-> 8],
      i8    |-> [kind |-> "sint",     bits |-> 8],
      u16   |-> [kind |-> "uint",     bits |-> 16],
      i16   |-> [kind |-> "sint",     bits |-> 16],
      u32   |-> [kind |-> "uint",     bits |-> 32],
      i32   |-> [kind |-> "sint",     bits |-> 32],
      u64   |-> [kind |-> "uint",     bits |-> 64],
      i64   |-> [kind |-> "sint",     bits |-> 64],
      u128  |-> [kind |-> "uint",     bits |-> 128],
      i128  |-> [kind |-> "sint",     bits |-> 128],
      usize |-> [kind |-> "ptrsized", bits |-> 32],
      isize |-> [kind |-> "ptrsized", bits |-> 32],
      f32   |-> [kind |-> "float",    bits |-> 32],
      f64   |-> [kind |-> "float",    bits |-> 64],
      bool  |-> [kind |-> "bool",     bits |-> 8],
      char  |-> [kind |-> "char",     bits |-> 32],
      Ordering |-> [kind |-> "enum",  bits |-> 8] ]

Prims == DOMAIN PrimInfo

Lone(p) == [layers |-> <<>>, base |-> p]
ArrayOf(t, n) == [layers |-> <<<<"array", n>>>> \o t.layers, base |-> t.base]
SliceOf(t, n) == [layers |-> <<<<"slice", n>>>> \o t.layers, base |-> t.base]
MaybeUninit(t) == [layers |-> <<<<"uninit", 0>>>> \o t.layers, base |-> t.base]

IsLone(t) == t.layers = <<>>
Outer(t) == Head(t.layers)
Inner(t) == [layers |-> Tail(t.layers), base |-> t.base]
IsArray(t) == ~IsLone(t) /\ Outer(t)[1] = "array"
IsSlice(t) == ~IsLone(t) /\ Outer(t)[1] = "slice"
IsUninit(t) == ~IsLone(t) /\ Outer(t)[1] = "uninit"
\* [T] is unsized: it is no element of an array or slice and no MaybeUninit<T>
Sized(t) == ~IsSlice(t)

RECURSIVE Pow2(_)
Pow2(k) == IF k = 0 THEN 1 ELSE 2 * Pow2(k - 1)
Shl(x, k) == x * Pow2(k)

----------------------------------------------------------------------------
(* The Word marker and the target derivation rules.                        *)

\* Word as it would be with the pointer-sized integers granted too
Word_with_ptrsized(p) ==
    p \in {"u8", "i8", "u16", "i16", "u32", "i32", "u64", "i64", "usize", "isize"}

\* unsafe impl Word for u8 {} ... unsafe impl Word for i64 {}
Word(p) == p \in {"u8", "i8", "u16", "i16", "u32", "i32", "u64", "i64"}

\* the lengths as they would be with 256 left out of the list
dma_target_array_impls_to_255 == (0..255) \cup {Shl(1, k) : k \in 9..16}

\* the lengths dma_target_array_impls! is invoked with
dma_target_array_impls == {
      0,   1,   2,   3,   4,   5,   6,   7,   8,   9,
     10,  11,  12,  13,  14,  15,  16,  17,  18,  19,
     20,  21,  22,  23,  24,  25,  26,  27,  28,  29,
     30,  31,  32,  33,  34,  35,  36,  37,  38,  39,
     40,  41,  42,  43,  44,  45,  46,  47,  48,  49,
     50,  51,  52,  53,  54,  55,  56,  57,  58,  59,
     60,  61,  62,  63,  64,  65,  66,  67,  68,  69,
     70,  71,  72,  73,  74,  75,  76,  77,  78,  79,
     80,  81,  82,  83,  84,  85,  86,  87,  88,  89,
     90,  91,  92,  93,  94,  95,  96,  97,  98,  99,
    100, 101, 102, 103, 104, 105, 106, 107, 108, 109,
    110, 111, 112, 113, 114, 115, 116, 117, 118, 119,
    120, 121, 122, 123, 124, 125, 126, 127, 128, 129,
    130, 131, 132, 133, 134, 135, 136, 137, 138, 139,
    140, 141, 142, 143, 144, 145, 146, 147, 148, 149,
    150, 151, 152, 153, 154, 155, 156, 157, 158, 159,
    160, 161, 162, 163, 164, 165, 166, 167, 168, 169,
    170, 171, 172, 173, 174, 175, 176, 177, 178, 179,
    180, 181, 182, 183, 184, 185, 186, 187, 188, 189,
    190, 191, 192, 193, 194, 195, 196, 197, 198, 199,
    200, 201, 202, 203, 204, 205, 206, 207, 208, 209,
    210, 211, 212, 213, 214, 215, 216, 217, 218, 219,
    220, 221, 222, 223, 224, 225, 226, 227, 228, 229,
    230, 231, 232, 233, 234, 235, 236, 237, 238, 239,
    240, 241, 242, 243, 244, 245, 246, 247, 248, 249,
    250, 251, 252, 253, 254, 255, 256,

    Shl(1,  9),
    Shl(1, 10),
    Shl(1, 11),
    Shl(1, 12),
    Shl(1, 13),
    Shl(1, 14),
    Shl(1, 15),
    Shl(1, 16)
    }

\* ReadTarget as it would be with an impl for MaybeUninit<T> as well
RECURSIVE ReadTarget_uninit(_)
ReadTarget_uninit(t) ==
    IF IsLone(t) THEN Word(t.base)
    ELSE IF IsSlice(t) THEN ReadTarget_uninit(Inner(t))
    ELSE IF IsArray(t)
         THEN Outer(t)[2] \in dma_target_array_impls /\ ReadTarget_uninit(Inner(t))
    ELSE ReadTarget_uninit(Inner(t))

\* T: ReadTarget, by the impls of the crate
RECURSIVE ReadTarget(_)
ReadTarget(t) ==
    IF IsLone(t) THEN Word(t.base)
    ELSE IF IsSlice(t) THEN ReadTarget(Inner(t))
    ELSE IF IsArray(t) THEN Outer(t)[2] \in dma_target_array_impls /\ ReadTarget(Inner(t))
    ELSE FALSE

\* WriteTarget as it would be with the base impl not bounded by Word
RECURSIVE WriteTarget_unbounded(_)
WriteTarget_unbounded(t) ==
    IF IsLone(t) THEN TRUE
    ELSE IF IsSlice(t) THEN WriteTarget_unbounded(Inner(t))
    ELSE IF IsArray(t)
         THEN Outer(t)[2] \in dma_target_array_impls /\ WriteTarget_unbounded(Inner(t))
    ELSE WriteTarget_unbounded(Inner(t))

\* T: WriteTarget, by the impls of the crate
RECURSIVE WriteTarget(_)
WriteTarget(t) ==
    IF IsLone(t) THEN Word(t.base)
    ELSE IF IsSlice(t) THEN WriteTarget(Inner(t))
    ELSE IF IsArray(t) THEN Outer(t)[2] \in dma_target_array_impls /\ WriteTarget(Inner(t))
    ELSE WriteTarget(Inner(t))

\* <T as ReadTarget>::Word and <T as WriteTarget>::Word: W for a lone W,
\* T::Word for [T], [T; N] and MaybeUninit<T>
RECURSIVE TargetWord(_)
TargetWord(t) == IF IsLone(t) THEN t.base ELSE TargetWord(Inner(t))

\* mem::size_of::<P>() of a primitive
size_of(p) == PrimInfo[p].bits \div 8

\* mem::size_of_val(self).  The explored sizes stay far below usize::MAX, and
\* rustc rejects a type larger than isize::MAX, so the product never wraps.
RECURSIVE size_of_val(_)
size_of_val(t) ==
    IF IsLone(t) THEN size_of(t.base)
    ELSE IF IsUninit(t) THEN size_of_val(Inner(t))
    ELSE Outer(t)[2] * size_of_val(Inner(t))

\* as_read_buffer as it would be without the division: a length in bytes
as_read_buffer_bytes(t, a) ==
    LET len == size_of_val(t)
        ptr == a
    IN  <<ptr, len>>

\* ReadTarget::as_read_buffer(&self), self a value of type t at address a
as_read_buffer(t, a) ==
    LET len == size_of_val(t) \div size_of(TargetWord(t))
        ptr == a
    IN  <<ptr, len>>

\* as_write_buffer as it would be dividing by the size of a usize
as_write_buffer_usize(t, a) ==
    LET len == size_of_val(t) \div size_of("usize")
        ptr == a
    IN  <<ptr, len>>

\* WriteTarget::as_write_buffer(&mut self), self a value of type t at address a
as_write_buffer(t, a) ==
    LET len == size_of_val(t) \div size_of(TargetWord(t))
        ptr == a
    IN  <<ptr, len>>

----------------------------------------------------------------------------
(* SpecTarget: a client names a target type, places a value of it at an     *)
(* address and asks for its descriptors where the type is a target.        *)

LenUniverse ==
    (0..MaxDenseLen)
    \cup {n \in {Pow2(k) + d : k \in 0..MaxPow, d \in {-1, 0, 1}} : n >= 0}

Addrs == {4096 + 64 * i : i \in 0..MaxAddrIdx}

Depth(t) == Len(t.layers)
\* a type that may be wrapped once more within the bounds
Wrappable(t) ==
    /\ Sized(t)
    /\ Depth(t) < MaxDepth
    /\ Depth(t) >= 2 => \A i \in 1..Depth(t) : t.layers[i][2] <= MaxNestLen
NextLens(t) == IF IsLone(t) THEN LenUniverse ELSE 0..MaxNestLen

OwnerIdle ==
    /\ owner = NoOwner
    /\ mem = <<>>
    /\ heap = {}
    /\ rdLog = <<>>
    /\ wrLog = <<>>

TargetInit ==
    /\ ty \in {Lone(p) : p \in Prims}
    /\ addr \in Addrs
    /\ rdDesc = None
    /\ wrDesc = None
    /\ OwnerIdle

\* the client writes [T; n]
FormArray ==
    /\ Wrappable(ty)
    /\ \E n \in NextLens(ty) : ty' = ArrayOf(ty, n)
    /\ rdDesc' = None
    /\ wrDesc' = None
    /\ UNCHANGED <<addr, owner, mem, heap, rdLog, wrLog>>

\* the client has a [T] of n elements
FormSlice ==
    /\ Wrappable(ty)
    /\ \E n \in NextLens(ty) : ty' = SliceOf(ty, n)
    /\ rdDesc' = None
    /\ wrDesc' = None
    /\ UNCHANGED <<addr, owner, mem, heap, rdLog, wrLog>>

\* the client writes MaybeUninit<T>
FormUninit ==
    /\ Wrappable(ty)
    /\ ty' = MaybeUninit(ty)
    /\ rdDesc' = None
    /\ wrDesc' = None
    /\ UNCHANGED <<addr, owner, mem, heap, rdLog, wrLog>>

\* value.as_read_buffer(), which compiles when the type is a ReadTarget
AsReadBuffer ==
    /\ ReadTarget(ty)
    /\ rdDesc' = as_read_buffer(ty, addr)
    /\ UNCHANGED <<ty, addr, wrDesc, owner, mem, heap, rdLog, wrLog>>

\* value.as_write_buffer(), which compiles when the type is a WriteTarget
AsWriteBuffer ==
    /\ WriteTarget(ty)
    /\ wrDesc' = as_write_buffer(ty, addr)
    /\ UNCHANGED <<ty, addr, rdDesc, owner, mem, heap, rdLog, wrLog>>

TargetNext ==
    \/ FormArray
    \/ FormSlice
    \/ FormUninit
    \/ AsReadBuffer
    \/ AsWriteBuffer

SpecTarget == TargetInit /\ [][TargetNext]_vars

----------------------------------------------------------------------------
(* Spec: an owner B of a buffer and the blanket bridges.                    *)

\* The owner kinds tried against the bounds of the blanket impls, with what
\* each implements: &'a T, &'a mut T, Box<T>, Vec<T>, Rc<T>, and a wrapper
\* that holds the target inside itself (Deref and DerefMut, no StableDeref).
OwnerInfo ==
    [ ref    |-> [Deref |-> TRUE, DerefMut |-> FALSE, StableDeref |-> TRUE,  onHeap |-> FALSE],
      refmut |-> [Deref |-> TRUE, DerefMut |-> TRUE,  StableDeref |-> TRUE,  onHeap |-> FALSE],
      box    |-> [Deref |-> TRUE, DerefMut |-> TRUE,  StableDeref |-> TRUE,  onHeap |-> TRUE],
      vec    |-> [Deref |-> TRUE, DerefMut |-> TRUE,  StableDeref |-> TRUE,  onHeap |-> TRUE],
      rc     |-> [Deref |-> TRUE, DerefMut |-> FALSE, StableDeref |-> TRUE,  onHeap |-> TRUE],
      inline |-> [Deref |-> TRUE, DerefMut |-> TRUE,  StableDeref |-> FALSE, onHeap |-> FALSE] ]

OwnerKinds == DOMAIN OwnerInfo

\* the ReadBuffer bridge as it would be without the 'static bound
ReadBuffer_no_static(o, t) ==
    /\ OwnerInfo[o.kind].Deref
    /\ OwnerInfo[o.kind].StableDeref
    /\ ReadTarget(t)

\* where B: Deref<Target = T> + StableDeref + 'static, T: ReadTarget + ?Sized
ReadBuffer(o, t) ==
    /\ OwnerInfo[o.kind].Deref
    /\ OwnerInfo[o.kind].StableDeref
    /\ o.static
    /\ ReadTarget(t)

\* where B: DerefMut<Target = T> + StableDeref + 'static, T: WriteTarget + ?Sized
WriteBuffer(o, t) ==
    /\ OwnerInfo[o.kind].DerefMut
    /\ OwnerInfo[o.kind].StableDeref
    /\ o.static
    /\ WriteTarget(t)

\* read_buffer as it would be describing the owner value, not its target
read_buffer_of_owner(o, t, a) == <<o.loc, as_read_buffer(t, a)[2]>>

\* <B as ReadBuffer>::read_buffer(&self): self.as_read_buffer() derefs the
\* owner o to its target, a value of type t at address a
read_buffer(o, t, a) == as_read_buffer(t, a)

\* write_buffer as it would be describing the owner value, not its target
write_buffer_of_owner(o, t, a) == <<o.loc, as_write_buffer(t, a)[2]>>

\* <B as WriteBuffer>::write_buffer(&mut self): self.as_write_buffer()
write_buffer(o, t, a) == as_write_buffer(t, a)

\* where the owner value itself may live
Locs == {256 + 64 * i : i \in 0..MaxAddrIdx}

\* the target types owners are given
SizedTargets ==
    { Lone("u8"), Lone("u32"), Lone("f32"),
      ArrayOf(Lone("u8"), 2), ArrayOf(Lone("u8"), 128), ArrayOf(Lone("u8"), 257),
      ArrayOf(Lone("u16"), 2), ArrayOf(Lone("f32"), 2),
      MaybeUninit(ArrayOf(Lone("u8"), 2)) }
SliceTargets ==
    { SliceOf(Lone(w), n) : w \in {"u8", "u32", "f32"}, n \in 0..MaxVecLen }

\* the number of words of the contents that are followed
Followed(t) ==
    IF WriteTarget(t)
    THEN LET n == as_write_buffer(t, 0)[2] IN IF n < MaxDmaWords THEN n ELSE MaxDmaWords
    ELSE 0

\* contents at construction: zeroes, or -1 for words not initialized yet
Fresh(t) == [i \in 1..Followed(t) |-> IF \E j \in 1..Depth(t) : t.layers[j][1] = "uninit" THEN -1 ELSE 0]

WordVals == {0, 1}

Init ==
    /\ \E k \in OwnerKinds, st \in BOOLEAN, l \in Locs :
          /\ ~st => k \in {"ref", "refmut"}
          /\ owner = [kind |-> k, static |-> st, loc |-> l, shares |-> 0]
    /\ ty \in (IF owner.kind = "vec" THEN SliceTargets
               ELSE IF owner.kind = "inline" THEN SizedTargets
               ELSE SizedTargets \cup SliceTargets)
    /\ addr \in (IF OwnerInfo[owner.kind].StableDeref THEN Addrs ELSE {owner.loc})
    /\ mem = Fresh(ty)
    /\ heap = IF OwnerInfo[owner.kind].onHeap THEN {addr} ELSE {}
    /\ rdLog = <<>>
    /\ wrLog = <<>>
    /\ rdDesc = None
    /\ wrDesc = None

\* unsafe { owner.read_buffer() }, which compiles when B: ReadBuffer
ReadBufferCall ==
    /\ ReadBuffer(owner, ty)
    /\ Len(rdLog) < MaxCalls
    /\ rdLog' = Append(rdLog, read_buffer(owner, ty, addr))
    /\ UNCHANGED <<ty, addr, rdDesc, wrDesc, owner, mem, heap, wrLog>>

\* the call as it would be if it zeroed the words it hands out
WriteBufferCall_zeroing ==
    /\ WriteBuffer(owner, ty)
    /\ owner.shares = 0
    /\ Len(wrLog) < MaxCalls
    /\ wrLog' = Append(wrLog, write_buffer(owner, ty, addr))
    /\ mem' = [i \in 1..Len(mem) |-> 0]
    /\ UNCHANGED <<ty, addr, rdDesc, wrDesc, owner, heap, rdLog>>

\* unsafe { owner.write_buffer() }, which compiles when B: WriteBuffer and
\* no shared borrow of the owner is live
WriteBufferCall ==
    /\ WriteBuffer(owner, ty)
    /\ owner.shares = 0
    /\ Len(wrLog) < MaxCalls
    /\ wrLog' = Append(wrLog, write_buffer(owner, ty, addr))
    /\ UNCHANGED <<ty, addr, rdDesc, wrDesc, owner, mem, heap, rdLog>>

\* a &self operation on the owner begins (a shared borrow is taken) ...
SharedOp ==
    /\ owner.shares < MaxShares
    /\ owner' = [owner EXCEPT !.shares = @ + 1]
    /\ UNCHANGED <<ty, addr, rdDesc, wrDesc, mem, heap, rdLog, wrLog>>

\* ... and ends
EndSharedOp ==
    /\ owner.shares > 0
    /\ owner' = [owner EXCEPT !.shares = @ - 1]
    /\ UNCHANGED <<ty, addr, rdDesc, wrDesc, mem, heap, rdLog, wrLog>>

\* the owner is moved: a StableDeref owner keeps its target where it is, the
\* inline wrapper takes it along
MoveOwner ==
    /\ owner.shares = 0
    /\ \E l \in Locs \ {owner.loc} :
          /\ owner' = [owner EXCEPT !.loc = l]
          /\ addr' = IF OwnerInfo[owner.kind].StableDeref THEN addr ELSE l
    /\ UNCHANGED <<ty, rdDesc, wrDesc, mem, heap, rdLog, wrLog>>

\* Vec::push, a &mut self operation that may reallocate
VecPush ==
    /\ owner.kind = "vec"
    /\ owner.shares = 0
    /\ Outer(ty)[2] < MaxVecLen
    /\ \E a \in Addrs, v \in WordVals :
          /\ addr' = a
          /\ heap' = (heap \ {addr}) \cup {a}
          /\ ty' = SliceOf(Inner(ty), Outer(ty)[2] + 1)
          /\ mem' = IF Len(mem) < Followed(ty') THEN Append(mem, v) ELSE mem
    /\ rdLog' = <<>>
    /\ wrLog' = <<>>
    /\ UNCHANGED <<rdDesc, wrDesc, owner>>

\* Vec::pop, a &mut self operation
VecPop ==
    /\ owner.kind = "vec"
    /\ owner.shares = 0
    /\ Outer(ty)[2] > 0
    /\ ty' = SliceOf(Inner(ty), Outer(ty)[2] - 1)
    /\ mem' = SubSeq(mem, 1, Followed(ty'))
    /\ rdLog' = <<>>
    /\ wrLog' = <<>>
    /\ UNCHANGED <<addr, rdDesc, wrDesc, owner, heap>>

\* a store through DerefMut::deref_mut(&mut self)
DerefMutStore ==
    /\ OwnerInfo[owner.kind].DerefMut
    /\ owner.shares = 0
    /\ \E i \in 1..Len(mem), v \in WordVals : mem' = [mem EXCEPT ![i] = v]
    /\ rdLog' = <<>>
    /\ wrLog' = <<>>
    /\ UNCHANGED <<ty, addr, rdDesc, wrDesc, owner, heap>>

\* the hardware writes a word through the outstanding write descriptor
DmaWrite ==
    /\ wrLog # <<>>
    /\ \E i \in 1..Len(mem), v \in WordVals : mem' = [mem EXCEPT ![i] = v]
    /\ UNCHANGED <<ty, addr, rdDesc, wrDesc, owner, heap, rdLog, wrLog>>

Next ==
    \/ ReadBufferCall
    \/ WriteBufferCall
    \/ SharedOp
    \/ EndSharedOp
    \/ MoveOwner
    \/ VecPush
    \/ VecPop
    \/ DerefMutStore
    \/ DmaWrite

Spec == Init /\ [][Next]_vars

----------------------------------------------------------------------------
(* The claims.                                                             *)

\* C1 (Spec): between two &mut self operations on the owner, whatever &self
\* operations, moves of the owner and hardware writes come in between, every
\* read_buffer call returns the (pointer, count) pair of the first call.
C1_ReadBufferStable ==
    \A i \in 1..Len(rdLog) : rdLog[i] = rdLog[1]

C1_Witness ==
    /\ Len(rdLog) >= 2
    /\ owner.shares > 0

\* C2 (Spec): with no other &mut self operation in between, write_buffer can
\* be called again while a descriptor is outstanding, and every call returns
\* the pair of the first one: (address of the array, 128) for a [u8; 128].
C2_WriteBufferRepeatable ==
    /\ \A i \in 1..Len(wrLog) : wrLog[i] = wrLog[1]
    /\ (wrLog # <<>> /\ Len(wrLog) < MaxCalls /\ owner.shares = 0)
          => ENABLED WriteBufferCall
    /\ (wrLog # <<>> /\ ty = ArrayOf(Lone("u8"), 128))
          => \A i \in 1..Len(wrLog) : wrLog[i] = <<addr, 128>>

C2_Witness ==
    /\ Len(wrLog) >= 2
    /\ ty = ArrayOf(Lone("u8"), 128)
    /\ wrLog[2] = <<addr, 128>>

\* the address of element i of an array or slice value of type t at address a
ElemAddr(t, a, i) == a + i * size_of_val(Inner(t))

\* C3 (SpecTarget): for an array or slice of n words the descriptor is
\* (address of the first element, n), whatever the width of the word; for a
\* lone word it is (address of the word, 1).
C3_CountsWords ==
    /\ ((IsArray(ty) \/ IsSlice(ty)) /\ IsLone(Inner(ty)))
          => /\ rdDesc # None => rdDesc = <<ElemAddr(ty, addr, 0), Outer(ty)[2]>>
             /\ wrDesc # None => wrDesc = <<ElemAddr(ty, addr, 0), Outer(ty)[2]>>
    /\ IsLone(ty)
          => /\ rdDesc # None => rdDesc = <<addr, 1>>
             /\ wrDesc # None => wrDesc = <<addr, 1>>

C3_Witness ==
    /\ ty = SliceOf(Lone("u32"), 10)
    /\ rdDesc = <<addr, 10>>
    /\ wrDesc = <<addr, 10>>

\* C4 (SpecTarget): MaybeUninit<T> is a WriteTarget with T's word type when T
\* is a WriteTarget, and is never a ReadTarget, so no read descriptor of it
\* is ever produced.
C4_UninitWriteOnly ==
    IsUninit(ty) =>
        /\ ~ReadTarget(ty)
        /\ rdDesc = None
        /\ WriteTarget(Inner(ty))
              => WriteTarget(ty) /\ TargetWord(ty) = TargetWord(Inner(ty))

C4_Witness ==
    /\ ty = MaybeUninit(ArrayOf(Lone("u16"), 4))
    /\ wrDesc = <<addr, 4>>

\* C5 (SpecTarget): a type is a WriteTarget, and a write descriptor of it is
\* produced, only when its word type is a Word; a type whose innermost
\* element type is no Word is no WriteTarget, whatever the nesting.
C5_WriteNeedsWord ==
    /\ WriteTarget(ty) => Word(TargetWord(ty))
    /\ wrDesc # None => Word(TargetWord(ty))
    /\ ~Word(ty.base) => ~WriteTarget(ty) /\ wrDesc = None

C5_Witness ==
    /\ Depth(ty) = MaxDepth
    /\ IsUninit(ty)
    /\ wrDesc # None

\* C6 (SpecTarget): a primitive type is a Word exactly when it is a signed or
\* unsigned integer of 8, 16, 32 or 64 bits.
C6_WordTypes ==
    Word(ty.base) <=>
        /\ PrimInfo[ty.base].kind \in {"uint", "sint"}
        /\ PrimInfo[ty.base].bits \in {8, 16, 32, 64}

C6_Witness ==
    /\ ty = Lone("i64")
    /\ rdDesc = <<addr, 1>>

\* the lengths the specification names: 0..256 and 2^9 .. 2^16
SupportedLen(n) == n \in 0..256 \/ \E k \in 9..16 : n = Pow2(k)

\* C7 (SpecTarget): [T; N] is a ReadTarget (WriteTarget) exactly when T is one
\* and N is 0..256 or a power of two from 512 to 65536, and it then has T's
\* word type; no other length has an impl.
C7_ArrayLengths ==
    /\ IsArray(ty) =>
          /\ ReadTarget(ty) <=> (ReadTarget(Inner(ty)) /\ SupportedLen(Outer(ty)[2]))
          /\ WriteTarget(ty) <=> (WriteTarget(Inner(ty)) /\ SupportedLen(Outer(ty)[2]))
          /\ (ReadTarget(ty) \/ WriteTarget(ty))
                => TargetWord(ty) = TargetWord(Inner(ty))
    /\ \A n \in dma_target_array_impls : SupportedLen(n)

C7_Witness ==
    /\ ty = ArrayOf(Lone("u8"), 65536)
    /\ rdDesc = <<addr, 65536>>

\* C8 (Spec): read_buffer (write_buffer) is called only on an owner that is
\* StableDeref and 'static and derefs (mutably) to a ReadTarget
\* (WriteTarget); an owner with a bounded lifetime gets neither; and what the
\* bridge returns is what the target's as_read_buffer (as_write_buffer) gives.
C8_BridgeBounds ==
    /\ rdLog # <<>> =>
          /\ owner.kind \in {"ref", "refmut", "box", "vec", "rc"}
          /\ owner.static
          /\ ReadTarget(ty)
    /\ wrLog # <<>> =>
          /\ owner.kind \in {"refmut", "box", "vec"}
          /\ owner.static
          /\ WriteTarget(ty)
    /\ ~owner.static => ~ReadBuffer(owner, ty) /\ ~WriteBuffer(owner, ty)
    /\ \A i \in 1..Len(rdLog) : rdLog[i] = as_read_buffer(ty, addr)
    /\ \A i \in 1..Len(wrLog) : wrLog[i] = as_write_buffer(ty, addr)

C8_Witness ==
    /\ owner.kind = "box"
    /\ rdLog # <<>>
    /\ wrLog # <<>>

\* the product of the array and slice lengths along the nesting
RECURSIVE LenProduct(_)
LenProduct(t) ==
    IF IsLone(t) THEN 1
    ELSE IF IsUninit(t) THEN LenProduct(Inner(t))
    ELSE Outer(t)[2] * LenProduct(Inner(t))

\* the count c is size_of_val / size_of::<Word> of t, exactly
ExactCount(t, c) ==
    /\ size_of(TargetWord(t)) # 0
    /\ size_of_val(t) % size_of(TargetWord(t)) = 0
    /\ c * size_of(TargetWord(t)) = size_of_val(t)
    /\ c = LenProduct(t)

\* C9 (SpecTarget): for every target shape, nested ones included, the count
\* is byte size of the target / byte size of the word, with no remainder and
\* a non-zero divisor, and is the product of the lengths along the nesting.
C9_CountIsExact ==
    /\ rdDesc # None => ExactCount(ty, rdDesc[2])
    /\ wrDesc # None => ExactCount(ty, wrDesc[2])

C9_Witness ==
    /\ ty = ArrayOf(ArrayOf(Lone("u16"), 4), 3)
    /\ rdDesc = <<addr, 12>>
    /\ wrDesc = <<addr, 12>>

\* C10 (Spec): a read_buffer or write_buffer call is one step that is enabled
\* whenever the call compiles, and it leaves the owner, the target's type
\* (length) and address, the contents and the heap as they were.
C10_PureQuery ==
    /\ []((ReadBuffer(owner, ty) /\ Len(rdLog) < MaxCalls) => ENABLED ReadBufferCall)
    /\ []((WriteBuffer(owner, ty) /\ owner.shares = 0 /\ Len(wrLog) < MaxCalls)
             => ENABLED WriteBufferCall)
    /\ [][(Len(rdLog') = Len(rdLog) + 1 \/ Len(wrLog') = Len(wrLog) + 1)
             => UNCHANGED <<owner, ty, addr, mem, heap>>]_vars

C10_Witness ==
    /\ Len(wrLog) >= 2
    /\ rdLog # <<>>
    /\ heap # {}
    /\ \E i \in 1..Len(mem) : mem[i] = 1

====
